---- MODULE Spec2Model ----
(***************************************************************************)
(* Model of gpt-rust (src/main.rs): a one-shot command-line client that    *)
(* parses its flags, reads OPENAI_TOKEN, reads one prompt line, posts one  *)
(* completion request and prints the decoded response.                     *)
(*                                                                         *)
(* Option<T> values are modelled as sequences of length at most one:       *)
(* <<>> is None and <<x>> is Some(x).  f64 values are modelled by the      *)
(* token of their shortest decimal representation ("0.3"), with "NaN"      *)
(* standing for the non-finite values.                                     *)
(***************************************************************************)
EXTENDS Integers, Sequences, FiniteSets, TLC

VARIABLES
    pc,             \* position of main
    argv,           \* the command line (raw flag values)
    envToken,       \* env::var("OPENAI_TOKEN") as an Option
    overflowChecks, \* build flavour: TRUE = overflow checks on (debug profile)
    args,           \* Option<GptRequest>: result of GptRequest::parse()
    header,         \* Option<String>: the Authorization header value
    prompt,         \* Option<Result>: result of rl.readline
    request,        \* Option<GptRequest>: the struct built at line 86
    req,            \* Option<Request<Body>>: the HTTP request built at line 91
    sentCount,      \* number of client.request calls made so far
    inFlight,       \* number of requests sent and not yet answered
    wire,           \* Option: the server's answer (status and body text)
    res,            \* Option: status of the response head the client holds
    body,           \* Option: the aggregated response body (line 103)
    json,           \* Option<GptResponse>: the decoded response
    remaining,      \* choices still to be displayed by the for loop
    spinner,        \* "none" | "running" | "stopped"
    stdout,         \* lines printed with println!
    outcome         \* how the process ended

vars == <<pc, argv, envToken, overflowChecks, args, header, prompt, request,
          req, sentCount, inFlight, wire, res, body, json, remaining,
          spinner, stdout, outcome>>

----------------------------------------------------------------------------
(* Bounds *)

MaxChoices == 2

----------------------------------------------------------------------------
(* Option helpers *)

None == <<>>
Some(x) == <<x>>
IsSome(o) == Len(o) = 1
IsNone(o) == Len(o) = 0
Unwrap(o) == o[1]

SeqsUpTo(S, k) == UNION {[1..m -> S] : m \in 0..k}

----------------------------------------------------------------------------
(* GptRequest and the command line: src/main.rs lines 13-31 *)

DefaultPrompt == ""
DefaultTemperature == "0.3"
DefaultMaxTokens == 50
DefaultN == 1
DefaultStop == ""

U8Max == 255

NonFinite == {"NaN"}
FiniteF64 == {"0.3", "0.7"}

\* raw text of a -t value: a decimal literal, a non-finite literal, or a
\* word that is no float at all
RawTemperature == {"0.7", "0.70", "NaN", "hot"}
RawN == {2, 256}
RawMaxTokens == {7}
RawPrompt == {"cli"}
RawStop == {"END"}

Argv == [help : BOOLEAN,
         prompt : {None} \cup {Some(v) : v \in RawPrompt},
         temperature : {None} \cup {Some(v) : v \in RawTemperature},
         max_tokens : {None} \cup {Some(v) : v \in RawMaxTokens},
         n : {None} \cup {Some(v) : v \in RawN},
         stop : {None} \cup {Some(v) : v \in RawStop}]

ParseFailed == [ok |-> FALSE, val |-> 0]

\* <f64 as FromStr>::from_str on the raw text
ParseF64(s) ==
    CASE s = "0.7" -> [ok |-> TRUE, val |-> "0.7"]
      [] s = "0.70" -> [ok |-> TRUE, val |-> "0.7"]
      [] s = "0.3" -> [ok |-> TRUE, val |-> "0.3"]
      [] s = "NaN" -> [ok |-> TRUE, val |-> "NaN"]
      [] OTHER -> [ok |-> FALSE, val |-> "0"]

\* <u8 as FromStr>::from_str on the number the raw text denotes
ParseU8(v) == IF v \in 0..U8Max THEN [ok |-> TRUE, val |-> v] ELSE ParseFailed

OrDefault(o, d) == IF IsSome(o) THEN Unwrap(o) ELSE d

\* every flag value given on the command line converts to its field type
ArgvValid(a) ==
    /\ IsSome(a.temperature) => ParseF64(Unwrap(a.temperature)).ok
    /\ IsSome(a.n) => ParseU8(Unwrap(a.n)).ok

\* the GptRequest clap builds from a valid command line
ParsedArgs(a) ==
    [prompt |-> OrDefault(a.prompt, DefaultPrompt),
     temperature |-> IF IsSome(a.temperature)
                       THEN ParseF64(Unwrap(a.temperature)).val
                       ELSE DefaultTemperature,
     max_tokens |-> OrDefault(a.max_tokens, DefaultMaxTokens),
     n |-> IF IsSome(a.n) THEN ParseU8(Unwrap(a.n)).val ELSE DefaultN,
     stop |-> OrDefault(a.stop, DefaultStop)]

\* Faulty variant of StructUpdate: a prompt given with -P wins over the
\* line that was read
StructUpdate_KeepFlag(line, a) ==
    IF a.prompt # "" THEN a ELSE [a EXCEPT !.prompt = line]

\* struct update syntax of line 86: GptRequest { prompt, ..args }
StructUpdate(line, a) == [a EXCEPT !.prompt = line]

\* serde_json's f64 serializer: a non-finite value is written as null
SerializeF64(v) == IF v \in NonFinite THEN "null" ELSE v

\* serde_json::to_vec(&request): the JSON object of the derived Serialize
SerializeRequest(r) ==
    [prompt |-> r.prompt,
     temperature |-> SerializeF64(r.temperature),
     max_tokens |-> r.max_tokens,
     n |-> r.n,
     stop |-> r.stop]

----------------------------------------------------------------------------
(* Process outcomes *)

\* "sk\n" stands for a token holding a byte no header value may hold
Tokens == {"sk-1", "sk\n"}
Lines == {"Hello", ""}

Uri == "https://api.openai.com/v1/engines/text-davinci-002/completions"

Running == [kind |-> "Running", code |-> 0, detail |-> "", status |-> None]
\* main returned Ok(())
ExitOk == [kind |-> "Ok", code |-> 0, detail |-> "", status |-> None]
\* clap printed help or version and exited
ExitHelp == [kind |-> "Help", code |-> 0, detail |-> "", status |-> None]
\* clap printed a usage error and exited
ExitUsage == [kind |-> "UsageError", code |-> 2, detail |-> "", status |-> None]
\* main returned Err(e): the runtime prints Error: e and exits with 1
ExitErr(e) == [kind |-> "Err", code |-> 1, detail |-> e, status |-> None]
\* a panic unwinds out of main: the message is the fixed text msg
ExitPanic(msg) == [kind |-> "Panic", code |-> 101, detail |-> msg, status |-> None]



----------------------------------------------------------------------------
(* The response: src/main.rs lines 33-45 and the server's answers *)

Statuses == {200, 301, 404}

\* http::StatusCode::is_success
StatusIsSuccess(s) == s >= 200 /\ s < 300

\* a JSON object of the choices array as the server wrote it; a field the
\* server left out is None
WireIndex == {0, 255, 256}
WireChoice ==
    {[text |-> Some(" world"), index |-> Some(i), finish_reason |-> Some("stop")] :
        i \in WireIndex}
    \cup {[text |-> Some(" world"), index |-> Some(0), finish_reason |-> None]}

WireId == {None, Some("cmpl-1")}
WireModel == {None, Some("demo-model")}
WireChoices == {None} \cup {Some(cs) : cs \in SeqsUpTo(WireChoice, MaxChoices)}

\* a body that is no JSON value at all
Garbage == [wellformed |-> FALSE, id |-> None, model |-> None, choices |-> None]

Bodies ==
    {Garbage} \cup
    [wellformed : {TRUE}, id : WireId, model : WireModel, choices : WireChoices]

Wires == [status : Statuses, body : Bodies]

\* Deserialize for GptChoice: all three fields are required, index is a u8
ChoiceDecodes(c) ==
    /\ IsSome(c.text)
    /\ IsSome(c.index)
    /\ Unwrap(c.index) \in 0..U8Max
    /\ IsSome(c.finish_reason)

DecodeChoice(c) ==
    [text |-> Unwrap(c.text),
     index |-> Unwrap(c.index),
     finish_reason |-> Unwrap(c.finish_reason)]

DecodeFailed ==
    [ok |-> FALSE, val |-> [id |-> None, model |-> None, choices |-> None]]

\* serde_json::from_reader::<GptResponse>: the three fields are Options
Decode(b) ==
    IF ~b.wellformed THEN DecodeFailed
    ELSE IF IsSome(b.choices)
            /\ \E k \in 1..Len(Unwrap(b.choices)) :
                   ~ChoiceDecodes(Unwrap(b.choices)[k])
    THEN DecodeFailed
    ELSE [ok |-> TRUE,
          val |-> [id |-> b.id,
                   model |-> b.model,
                   choices |-> IF IsSome(b.choices)
                                 THEN Some([k \in 1..Len(Unwrap(b.choices)) |->
                                              DecodeChoice(Unwrap(b.choices)[k])])
                                 ELSE None]]

----------------------------------------------------------------------------
(* What println! writes *)

HeaderLine(model, id) ==
    [kind |-> "header", model |-> model, id |-> id,
     number |-> 0, text |-> "", reason |-> ""]
ChoiceLine(number, text, reason) ==
    [kind |-> "choice", model |-> "", id |-> "",
     number |-> number, text |-> text, reason |-> reason]
ExitingLine ==
    [kind |-> "exiting", model |-> "", id |-> "",
     number |-> 0, text |-> "", reason |-> ""]

FallbackModel == "OpenAI"
FallbackId == "Err, Id not found"

\* choice.index + 1 on a u8 when the build wraps on overflow
WrappingAddOne(i) == (i + 1) % (U8Max + 1)
\* choice.index + 1 overflows the u8
AddOneOverflows(i) == i + 1 > U8Max

\* HeaderValue::try_from: a header value may hold no control bytes
ValidHeaderValue(h) == h[2] # "sk\n"

----------------------------------------------------------------------------
(* main: src/main.rs lines 47-136 *)

Init ==
    /\ pc = "parse"
    /\ argv \in Argv
    /\ envToken \in {None} \cup {Some(t) : t \in Tokens}
    /\ overflowChecks \in BOOLEAN
    /\ args = None
    /\ header = None
    /\ prompt = None
    /\ request = None
    /\ req = None
    /\ sentCount = 0
    /\ inFlight = 0
    /\ wire = None
    /\ res = None
    /\ body = None
    /\ json = None
    /\ remaining = <<>>
    /\ spinner = "none"
    /\ stdout = <<>>
    /\ outcome = Running

\* the process ends with outcome o
Exit(o) ==
    /\ pc' = "done"
    /\ outcome' = o

\* line 65: GptRequest::parse() exits the process itself on --help,
\* --version (code 0) and on a value it cannot convert (code 2)
ParseArgs ==
    /\ pc = "parse"
    /\ \/ /\ argv.help
          /\ Exit(ExitHelp)
          /\ args' = args
       \/ /\ ~ArgvValid(argv)
          /\ Exit(ExitUsage)
          /\ args' = args
       \/ /\ ~argv.help
          /\ ArgvValid(argv)
          /\ args' = Some(ParsedArgs(argv))
          /\ pc' = "token"
          /\ outcome' = outcome
    /\ UNCHANGED <<argv, envToken, overflowChecks, header, prompt, request,
                   req, sentCount, inFlight, wire, res, body, json, remaining,
                   spinner, stdout>>

\* Faulty variant of GetToken: unwrap_or_default() in place of expect(),
\* so that an unset variable yields the empty token
GetToken_UnwrapOrDefault ==
    /\ pc = "token"
    /\ header' = Some(<<"Bearer ", OrDefault(envToken, "")>>)
    /\ pc' = "readline"
    /\ UNCHANGED <<argv, envToken, overflowChecks, args, prompt, request,
                   req, sentCount, inFlight, wire, res, body, json, remaining,
                   spinner, stdout, outcome>>

\* lines 75-76
GetToken ==
    /\ pc = "token"
    /\ IF IsNone(envToken)
         THEN /\ Exit(ExitPanic("Env var OPENAI_TOKEN not set"))
              /\ header' = header
         ELSE /\ header' = Some(<<"Bearer ", Unwrap(envToken)>>)
              /\ pc' = "readline"
              /\ outcome' = outcome
    /\ UNCHANGED <<argv, envToken, overflowChecks, args, prompt, request,
                   req, sentCount, inFlight, wire, res, body, json, remaining,
                   spinner, stdout>>

ReadErr == [ok |-> FALSE, line |-> ""]
ReadOk(l) == [ok |-> TRUE, line |-> l]

\* Faulty variant of ReadLine: a failed read carries on with the empty line
ReadLine_UnwrapOrDefault ==
    /\ pc = "readline"
    /\ \E r \in {ReadErr} \cup {ReadOk(l) : l \in Lines} :
          prompt' = Some(r)
    /\ pc' = "build"
    /\ UNCHANGED <<argv, envToken, overflowChecks, args, header, request,
                   req, sentCount, inFlight, wire, res, body, json, remaining,
                   spinner, stdout, outcome>>

\* lines 79-84
ReadLine ==
    /\ pc = "readline"
    /\ \E r \in {ReadErr} \cup {ReadOk(l) : l \in Lines} :
          /\ prompt' = Some(r)
          /\ IF ~r.ok
               THEN /\ stdout' = Append(stdout, ExitingLine)
                    /\ Exit(ExitOk)
               ELSE /\ stdout' = stdout
                    /\ pc' = "build"
                    /\ outcome' = outcome
    /\ UNCHANGED <<argv, envToken, overflowChecks, args, header, request,
                   req, sentCount, inFlight, wire, res, body, json, remaining,
                   spinner>>

\* lines 85-95
BuildRequest ==
    /\ pc = "build"
    /\ spinner' = "running"
    /\ request' = Some(StructUpdate(Unwrap(prompt).line, Unwrap(args)))
    /\ IF ValidHeaderValue(Unwrap(header))
         THEN /\ req' = Some([method |-> "POST",
                              uri |-> Uri,
                              content_type |-> "application/json",
                              authorization |-> Unwrap(header),
                              body |-> SerializeRequest(Unwrap(request'))])
              /\ pc' = "send"
              /\ outcome' = outcome
         ELSE /\ req' = req
              /\ Exit(ExitPanic("Request Failed"))
    /\ UNCHANGED <<argv, envToken, overflowChecks, args, header, prompt,
                   sentCount, inFlight, wire, res, body, json, remaining, stdout>>

\* line 98, up to the await: the request leaves
SendRequest ==
    /\ pc = "send"
    /\ sentCount' = sentCount + 1
    /\ inFlight' = inFlight + 1
    /\ pc' = "await_head"
    /\ UNCHANGED <<argv, envToken, overflowChecks, args, header, prompt,
                   request, req, wire, res, body, json, remaining, spinner, stdout,
                   outcome>>

\* Faulty variant of ReceiveHead: a hyper::Error sends the request again
ReceiveHead_Retry ==
    /\ pc = "await_head"
    /\ inFlight' = inFlight - 1
    /\ \/ /\ pc' = "send"
          /\ UNCHANGED <<wire, res, outcome>>
       \/ \E w \in Wires :
             /\ wire' = Some(w)
             /\ res' = Some(w.status)
             /\ pc' = "check_status"
             /\ outcome' = outcome
    /\ UNCHANGED <<argv, envToken, overflowChecks, args, header, prompt,
                   request, req, sentCount, body, json, remaining, spinner,
                   stdout>>

\* line 98, the await resolves: a hyper::Error, or the head of an answer
ReceiveHead ==
    /\ pc = "await_head"
    /\ inFlight' = inFlight - 1
    /\ \/ /\ Exit(ExitErr("hyper::Error"))
          /\ UNCHANGED <<wire, res>>
       \/ \E w \in Wires :
             /\ wire' = Some(w)
             /\ res' = Some(w.status)
             /\ pc' = "check_status"
             /\ outcome' = outcome
    /\ UNCHANGED <<argv, envToken, overflowChecks, args, header, prompt,
                   request, req, sentCount, body, json, remaining, spinner,
                   stdout>>

\* line 100
CheckStatus ==
    /\ pc = "check_status"
    /\ IF StatusIsSuccess(Unwrap(res))
         THEN /\ pc' = "await_body"
              /\ outcome' = outcome
         ELSE Exit(ExitPanic("assertion failed: res.status().is_success()"))
    /\ UNCHANGED <<argv, envToken, overflowChecks, args, header, prompt,
                   request, req, sentCount, inFlight, wire, res, body, json,
                   remaining, spinner, stdout>>

\* Faulty variant of AggregateBody: the "Response Received" line is printed
\* as soon as the head is in, before the body is awaited
AggregateBody_HeaderFirst ==
    /\ pc = "await_body"
    /\ stdout' = Append(stdout, HeaderLine(FallbackModel, FallbackId))
    /\ \/ /\ Exit(ExitErr("hyper::Error"))
          /\ UNCHANGED <<body, spinner>>
       \/ /\ body' = Some(Unwrap(wire).body)
          /\ spinner' = "stopped"
          /\ pc' = "deserialize"
          /\ outcome' = outcome
    /\ UNCHANGED <<argv, envToken, overflowChecks, args, header, prompt,
                   request, req, sentCount, inFlight, wire, res, json,
                   remaining>>

\* lines 103-104
AggregateBody ==
    /\ pc = "await_body"
    /\ \/ /\ Exit(ExitErr("hyper::Error"))
          /\ UNCHANGED <<body, spinner>>
       \/ /\ body' = Some(Unwrap(wire).body)
          /\ spinner' = "stopped"
          /\ pc' = "deserialize"
          /\ outcome' = outcome
    /\ UNCHANGED <<argv, envToken, overflowChecks, args, header, prompt,
                   request, req, sentCount, inFlight, wire, res, json,
                   remaining, stdout>>

\* Faulty variant of Deserialize: unwrap_or_default() in place of ?, so
\* that a body that does not decode yields the empty response
Deserialize_UnwrapOrDefault ==
    /\ pc = "deserialize"
    /\ LET d == Decode(Unwrap(body)) IN json' = Some(d.val)
    /\ pc' = "print_header"
    /\ UNCHANGED <<argv, envToken, overflowChecks, args, header, prompt,
                   request, req, sentCount, inFlight, wire, res, body,
                   remaining, spinner, stdout, outcome>>

\* line 107
Deserialize ==
    /\ pc = "deserialize"
    /\ LET d == Decode(Unwrap(body)) IN
          IF d.ok
            THEN /\ json' = Some(d.val)
                 /\ pc' = "print_header"
                 /\ outcome' = outcome
            ELSE /\ json' = json
                 /\ Exit(ExitErr("serde_json::Error"))
    /\ UNCHANGED <<argv, envToken, overflowChecks, args, header, prompt,
                   request, req, sentCount, inFlight, wire, res, body, remaining,
                   spinner, stdout>>

\* lines 110-122
PrintHeader ==
    /\ pc = "print_header"
    /\ stdout' = Append(stdout,
                        HeaderLine(OrDefault(Unwrap(json).model, FallbackModel),
                                   OrDefault(Unwrap(json).id, FallbackId)))
    /\ pc' = "expect_choices"
    /\ UNCHANGED <<argv, envToken, overflowChecks, args, header, prompt,
                   request, req, sentCount, inFlight, wire, res, body, json,
                   remaining, spinner, outcome>>

\* line 124: json.choices.expect("No Choices Received")
ExpectChoices ==
    /\ pc = "expect_choices"
    /\ IF IsNone(Unwrap(json).choices)
         THEN /\ Exit(ExitPanic("No Choices Received"))
              /\ remaining' = remaining
         ELSE /\ remaining' = Unwrap(Unwrap(json).choices)
              /\ pc' = "for_choice"
              /\ outcome' = outcome
    /\ UNCHANGED <<argv, envToken, overflowChecks, args, header, prompt,
                   request, req, sentCount, inFlight, wire, res, body, json,
                   spinner, stdout>>

\* lines 124-133, one iteration of the loop
PrintChoice ==
    /\ pc = "for_choice"
    /\ remaining # <<>>
    /\ LET choice == Head(remaining) IN
          IF AddOneOverflows(choice.index) /\ overflowChecks
            THEN /\ Exit(ExitPanic("attempt to add with overflow"))
                 /\ UNCHANGED <<remaining, stdout>>
            ELSE /\ stdout' = Append(stdout,
                                     ChoiceLine(WrappingAddOne(choice.index),
                                                choice.text,
                                                choice.finish_reason))
                 /\ remaining' = Tail(remaining)
                 /\ UNCHANGED <<pc, outcome>>
    /\ UNCHANGED <<argv, envToken, overflowChecks, args, header, prompt,
                   request, req, sentCount, inFlight, wire, res, body, json,
                   spinner>>

\* line 135
ReturnOk ==
    /\ pc = "for_choice"
    /\ remaining = <<>>
    /\ Exit(ExitOk)
    /\ UNCHANGED <<argv, envToken, overflowChecks, args, header, prompt,
                   request, req, sentCount, inFlight, wire, res, body, json,
                   remaining, spinner, stdout>>

Next ==
    \/ ParseArgs
    \/ GetToken
    \/ ReadLine
    \/ BuildRequest
    \/ SendRequest
    \/ ReceiveHead
    \/ CheckStatus
    \/ AggregateBody
    \/ Deserialize
    \/ PrintHeader
    \/ ExpectChoices
    \/ PrintChoice
    \/ ReturnOk

Spec == Init /\ [][Next]_vars

----------------------------------------------------------------------------
(* Vocabulary of the properties *)

Done == pc = "done"

\* the error taxonomy, read off the process outcome
IsTransportError(o) == o.kind = "Err" /\ o.detail = "hyper::Error"
IsDecodeError(o) == o.kind = "Err" /\ o.detail = "serde_json::Error"
IsServiceError(o) == o.kind = "Err" /\ o.detail = "ServiceError"
IsStatusPanic(o) ==
    o.kind = "Panic" /\ o.detail = "assertion failed: res.status().is_success()"
IsTokenPanic(o) ==
    o.kind = "Panic" /\ o.detail = "Env var OPENAI_TOKEN not set"

LinesOfKind(k) == SelectSeq(stdout, LAMBDA l : l.kind = k)
HeaderPrinted == LinesOfKind("header") # <<>>
ChoicePrinted == LinesOfKind("choice") # <<>>

\* the value a flag denotes on the command line, or the flag's default
CliValue(o, d) == IF IsSome(o) THEN Unwrap(o) ELSE d
CliTemperature ==
    IF IsSome(argv.temperature) THEN ParseF64(Unwrap(argv.temperature)).val
    ELSE "0.3"

----------------------------------------------------------------------------
(* C1 *)

\* C1 as stated: if OPENAI_TOKEN is unset, no request is ever sent, the user
\* is never asked for a prompt, and the process ends with a non-zero code.
C1_UnsetTokenAlwaysFails ==
    IsNone(envToken) =>
        /\ sentCount = 0
        /\ IsNone(prompt)
        /\ Done => outcome.code # 0

\* C1 (amended): if OPENAI_TOKEN is unset, no request is ever built or sent
\* and the user is never asked for a prompt; a run whose command line parsed
\* ends in the panic "Env var OPENAI_TOKEN not set" (code 101), and the only
\* runs that end with code 0 are those where clap printed help or version
\* before the token was read.
C1_UnsetTokenNeverSends ==
    IsNone(envToken) =>
        /\ sentCount = 0
        /\ inFlight = 0
        /\ IsNone(req)
        /\ IsNone(prompt)
        /\ pc \in {"parse", "token", "done"}
        /\ Done /\ IsSome(args) => IsTokenPanic(outcome) /\ outcome.code # 0
        /\ Done /\ outcome.code = 0 => outcome = ExitHelp /\ argv.help

C1_Witness ==
    /\ Done
    /\ IsNone(envToken)
    /\ IsSome(args)
    /\ IsTokenPanic(outcome)

----------------------------------------------------------------------------
(* C2 *)

\* C2 as stated: a success status with a well-formed body that has no
\* `choices` ends the run successfully (code 0) with no choice displayed.
C2_AbsentChoicesSucceeds ==
    (/\ Done
     /\ IsSome(body)
     /\ Unwrap(body).wellformed
     /\ IsNone(Unwrap(body).choices))
    => /\ outcome = ExitOk
       /\ ~ChoicePrinted

----------------------------------------------------------------------------
(* C3 *)

\* C3 as stated: a non-2xx status ends the run in a ServiceError that
\* carries the status code, never in a DecodeError, and the body is neither
\* read nor deserialized.
C3_NonSuccessIsServiceError ==
    (Done /\ IsSome(res) /\ ~StatusIsSuccess(Unwrap(res)))
    => /\ IsServiceError(outcome)
       /\ outcome.status = res
       /\ ~IsDecodeError(outcome)
       /\ IsNone(body)
       /\ IsNone(json)

----------------------------------------------------------------------------
(* C4 *)

\* C4: when the status is a success and the body that was read does not
\* decode as a GptResponse, the run ends with main returning the
\* serde_json error (code 1), and neither the header line nor a choice line
\* is ever printed.
C4_MalformedBodyIsDecodeError ==
    (IsSome(body) /\ ~Decode(Unwrap(body)).ok)
    => /\ StatusIsSuccess(Unwrap(res))
       /\ IsNone(json)
       /\ ~HeaderPrinted
       /\ ~ChoicePrinted
       /\ pc \in {"deserialize", "done"}
       /\ Done => IsDecodeError(outcome) /\ outcome.code = 1

C4_Witness ==
    /\ Done
    /\ IsSome(body)
    /\ Unwrap(body) = Garbage
    /\ IsDecodeError(outcome)

----------------------------------------------------------------------------
(* C5 *)

\* C5: if the prompt read fails, the process has ended with code 0 and no
\* request was built or sent.
C5_FailedReadExitsZero ==
    (IsSome(prompt) /\ ~Unwrap(prompt).ok)
    => /\ Done
       /\ outcome = ExitOk
       /\ outcome.code = 0
       /\ IsNone(request)
       /\ IsNone(req)
       /\ sentCount = 0
       /\ inFlight = 0

C5_Witness ==
    /\ IsSome(prompt)
    /\ ~Unwrap(prompt).ok
    /\ Done
    /\ LinesOfKind("exiting") # <<>>

----------------------------------------------------------------------------
(* C6 *)

\* C6: at most one request is sent and at most one is in flight; the steps
\* come in the order build, send, receive, decode, and a run that has
\* failed is over, with its one request (if any) no longer in flight.
C6_SingleRequest ==
    /\ sentCount <= 1
    /\ inFlight <= sentCount
    /\ sentCount = 1 => IsSome(req)
    /\ IsSome(res) => sentCount = 1 /\ inFlight = 0
    /\ IsSome(body) => IsSome(res)
    /\ IsSome(json) => IsSome(body)
    /\ outcome.kind \in {"Err", "Panic"} => Done /\ inFlight = 0
    /\ inFlight = 1 <=> pc = "await_head"

C6_Witness ==
    /\ Done
    /\ sentCount = 1
    /\ IsTransportError(outcome)
    /\ IsNone(res)

----------------------------------------------------------------------------
(* C7 *)

\* C7: nothing of the response is printed before it is fully decoded: as
\* long as no GptResponse has been decoded, and so in every run that ends
\* in a transport failure, a non-2xx status or a decode failure, neither the
\* header line nor a choice line is on the output.
C7_NoPartialOutput ==
    /\ IsNone(json) => ~HeaderPrinted /\ ~ChoicePrinted
    /\ (Done /\ (IsTransportError(outcome) \/ IsDecodeError(outcome)
                  \/ IsStatusPanic(outcome)))
       => IsNone(json) /\ ~HeaderPrinted /\ ~ChoicePrinted

C7_Witness ==
    /\ Done
    /\ IsTransportError(outcome)
    /\ IsSome(res)
    /\ stdout = <<>>

----------------------------------------------------------------------------
(* C8 *)

\* what is common to both readings of C8: the prompt is the line read, the
\* other fields of the struct are those parsed, and max_tokens, n and stop
\* go out as given on the command line (or as their defaults)
C8_Frame ==
    LET b == Unwrap(req).body IN
    /\ b.prompt = Unwrap(prompt).line
    /\ Unwrap(request).prompt = Unwrap(prompt).line
    /\ Unwrap(request).temperature = Unwrap(args).temperature
    /\ Unwrap(request).max_tokens = Unwrap(args).max_tokens
    /\ Unwrap(request).n = Unwrap(args).n
    /\ Unwrap(request).stop = Unwrap(args).stop
    /\ b.max_tokens = CliValue(argv.max_tokens, 50)
    /\ b.n = CliValue(argv.n, 1)
    /\ b.stop = CliValue(argv.stop, "")

\* C8 as stated: the request sent carries the line read as its prompt and
\* exactly the command-line temperature, max_tokens, n and stop.
C8_SentRequestCarriesCliValues ==
    sentCount = 1 =>
        /\ C8_Frame
        /\ Unwrap(req).body.temperature = CliTemperature

\* C8 (amended): the request sent carries the line read as its prompt,
\* whatever -P gave, and exactly the command-line max_tokens, n and stop;
\* its temperature is the command-line value when that value is finite, and
\* JSON null when it is not (-t NaN, -t inf).
C8_SentRequestCarriesFiniteCliValues ==
    sentCount = 1 =>
        /\ C8_Frame
        /\ CliTemperature \notin NonFinite
             => Unwrap(req).body.temperature = CliTemperature
        /\ CliTemperature \in NonFinite
             => Unwrap(req).body.temperature = "null"

C8_Witness ==
    /\ sentCount = 1
    /\ IsSome(argv.prompt)
    /\ Unwrap(argv.prompt) # Unwrap(prompt).line
    /\ Unwrap(req).body.prompt = "Hello"
    /\ IsSome(argv.temperature)
    /\ IsNone(argv.n)

----------------------------------------------------------------------------
(* C9 *)

\* C9 as stated: a decoded response that lacks id or model does not make
\* the run fail: the header shows the fallbacks, and every choice of the
\* response is displayed, one block per element, in order.
C9_MissingFieldsStillDisplayAll ==
    (Done /\ IsSome(json)
       /\ (IsNone(Unwrap(json).id) \/ IsNone(Unwrap(json).model)))
    => LET j == Unwrap(json)
           cs == IF IsSome(j.choices) THEN Unwrap(j.choices) ELSE <<>>
           shown == LinesOfKind("choice")
       IN /\ outcome = ExitOk
          /\ Len(LinesOfKind("header")) = 1
          /\ IsNone(j.model) => LinesOfKind("header")[1].model = "OpenAI"
          /\ IsNone(j.id) => LinesOfKind("header")[1].id = "Err, Id not found"
          /\ Len(shown) = Len(cs)
          /\ \A k \in 1..Len(shown) :
                /\ shown[k].text = cs[k].text
                /\ shown[k].reason = cs[k].finish_reason

----------------------------------------------------------------------------
(* C10 *)

\* C10 as stated: displaying a choice never fails, and the number displayed
\* is index + 1 for every index a u8 holds, 255 included.
C10_ChoiceNumberIsIndexPlusOne ==
    (IsSome(json) /\ IsSome(Unwrap(json).choices))
    => LET cs == Unwrap(Unwrap(json).choices)
           shown == LinesOfKind("choice")
       IN /\ outcome.detail # "attempt to add with overflow"
          /\ Len(shown) <= Len(cs)
          /\ \A k \in 1..Len(shown) : shown[k].number = cs[k].index + 1
          /\ Done => Len(shown) = Len(cs)

====
